---- MODULE Spec2Model ----
(***************************************************************************)
(* Model of OpenAPIClientAxios (src/src/client.ts): the client's state     *)
(* (definition, instance, default server selector), its asynchronous       *)
(* initialisation, and the request-construction functions getBaseURL,      *)
(* getRequestConfigForOperation and getAxiosConfigForOperation.            *)
(*                                                                         *)
(* JavaScript values are tagged records: the tag t is the value's type,    *)
(* so that typeof, truthiness, template-literal coercion and _.merge can   *)
(* be computed as the code computes them.                                  *)
(***************************************************************************)
EXTENDS Integers, Sequences, FiniteSets, TLC

VARIABLES
    remote,              \* what fetch(this.url) yields, by name (see DocumentOf)
    definition,          \* this.definition, by name (see DocumentOf)
    initalized,          \* this.initalized
    instance,            \* this.instance
    axiosConfigDefaults, \* this.axiosConfigDefaults
    defaultServer,       \* this.defaultServer
    baseURLVariables,    \* this.baseURLVariables
    pc,                  \* each getClient() caller's position
    resolved,            \* what each getClient() promise settled with
    fetches,             \* number of loadDocument() calls made
    creations,           \* number of axios instances created
    selected,            \* the arguments of the most recent server selection
    ret                  \* the last synchronous public call: its arguments and outcome

vars == <<remote, definition, initalized, instance, axiosConfigDefaults,
          defaultServer, baseURLVariables, pc, resolved, fetches, creations,
          selected, ret>>

\* what the initialisation reads and writes
lifecycleVars == <<remote, definition, initalized, instance, axiosConfigDefaults,
                   pc, resolved, fetches, creations>>

\* the default server selection
serverVars == <<defaultServer, baseURLVariables, selected>>

-----------------------------------------------------------------------------
(* Bounds *)

\* number of concurrent getClient() callers
NumCallers == 2

\* longest ParamsArray (sequence of explicit triples) passed as first argument
MaxTriples == 2

-----------------------------------------------------------------------------
(* JavaScript values *)

Undefined == [t |-> "undefined"]
Null == [t |-> "null"]
Num(n) == [t |-> "number", n |-> n]
Str(s) == [t |-> "string", s |-> s]
Bool(b) == [t |-> "boolean", b |-> b]
Arr(a) == [t |-> "array", a |-> a]
Obj(o) == [t |-> "object", o |-> o]

EmptyMap == [k \in {} |-> Undefined]

\* obj[k] = v on a plain object held as a function from its keys
Put(f, k, v) == [x \in (DOMAIN f) \cup {k} |-> IF x = k THEN v ELSE f[x]]

\* obj[k], undefined when the key is absent
Get(f, k) == IF k \in DOMAIN f THEN f[k] ELSE Undefined

\* JavaScript truthiness of a value
Truthy(v) ==
    CASE v.t = "undefined" -> FALSE
      [] v.t = "null" -> FALSE
      [] v.t = "number" -> v.n # 0
      [] v.t = "string" -> v.s # ""
      [] v.t = "boolean" -> v.b
      [] OTHER -> TRUE

\* _.isNil
IsNil(v) == v.t \in {"undefined", "null"}

Digit(d) == CASE d = 0 -> "0" [] d = 1 -> "1" [] d = 2 -> "2" [] d = 3 -> "3"
              [] d = 4 -> "4" [] d = 5 -> "5" [] d = 6 -> "6" [] d = 7 -> "7"
              [] d = 8 -> "8" [] d = 9 -> "9"

RECURSIVE Digits(_)
Digits(n) == IF n < 10 THEN Digit(n) ELSE Digits(n \div 10) \o Digit(n % 10)

RECURSIVE ToStr(_)
RECURSIVE JoinComma(_)
\* Array.prototype.join(","): null and undefined elements render empty
JoinComma(a) ==
    IF a = <<>> THEN ""
    ELSE LET h == IF IsNil(a[1]) THEN "" ELSE ToStr(a[1])
         IN IF Len(a) = 1 THEN h ELSE h \o "," \o JoinComma(Tail(a))

\* template-literal coercion `${v}`
ToStr(v) ==
    CASE v.t = "undefined" -> "undefined"
      [] v.t = "null" -> "null"
      [] v.t = "number" -> IF v.n < 0 THEN "-" \o Digits(-v.n) ELSE Digits(v.n)
      [] v.t = "string" -> v.s
      [] v.t = "boolean" -> IF v.b THEN "true" ELSE "false"
      [] v.t = "array" -> JoinComma(v.a)
      [] OTHER -> "[object Object]"

-----------------------------------------------------------------------------
(* The API description *)

ParamPath == "path"
ParamQuery == "query"
ParamHeader == "header"
ParamCookie == "cookie"

Param(name, in, required) == [name |-> name, in |-> in, required |-> required]

\* a server object: url is a string, description an optional string
Server(url, description) == [t |-> "object", url |-> url, description |-> description]

Lit(s) == [lit |-> s]
Placeholder(n) == [name |-> n]

ProdServer == Server("https://prod", Str("prod"))
StagingServer == Server("https://staging", Str("staging"))
OverrideServer == Server("https://op-override", Undefined)

PetPath == <<Lit("pets"), Placeholder("id")>>
PetsPath == <<Lit("pets")>>
ItemPath == <<Lit("items"), Placeholder("id")>>

\* the description's paths: path item -> its path-level declarations and methods
DocPaths ==
    << [path |-> PetPath,
        parameters |-> Arr(<<Param("id", ParamPath, TRUE)>>),
        servers |-> Undefined,
        methods |-> <<
            [method |-> "get",
             operation |-> [operationId |-> Str("getPet"),
                            parameters |-> Arr(<<Param("q", ParamQuery, FALSE)>>),
                            servers |-> Undefined]],
            [method |-> "delete",
             operation |-> [operationId |-> Str("deletePet"),
                            parameters |-> Undefined,
                            servers |-> Arr(<<OverrideServer>>)]] >>],
       [path |-> PetsPath,
        parameters |-> Undefined,
        servers |-> Undefined,
        methods |-> <<
            [method |-> "get",
             operation |-> [operationId |-> Str("listPets"),
                            parameters |-> Arr(<<Param("q", ParamQuery, FALSE),
                                                 Param("tag", ParamHeader, FALSE)>>),
                            servers |-> Undefined]],
            [method |-> "post",
             operation |-> [operationId |-> Undefined,
                            parameters |-> Undefined,
                            servers |-> Undefined]] >>],
       [path |-> ItemPath,
        parameters |-> Undefined,
        servers |-> Undefined,
        methods |-> <<
            [method |-> "get",
             operation |-> [operationId |-> Str("getItem"),
                            parameters |-> Undefined,
                            servers |-> Undefined]] >>] >>

\* a description with two top-level servers
DocServers == [t |-> "object", servers |-> Arr(<<ProdServer, StagingServer>>), paths |-> DocPaths]

\* the same description without a top-level server list
DocNoServers == [t |-> "object", servers |-> Undefined, paths |-> DocPaths]

\* the state holds a document by name
Documents == {"DocServers", "DocNoServers"}

\* what the fetch of this.url yields: a document, or a response that is not ok
Fetched == Documents \cup {"NotOk"}

\* this.definition before init() assigns it
NotLoaded == "NotLoaded"

\* res.ok && res.json(): the parsed document, or false when the response is not
\* ok; undefined for a definition not yet assigned
DocumentOf(name) ==
    CASE name = "DocServers" -> DocServers
      [] name = "DocNoServers" -> DocNoServers
      [] name = "NotOk" -> Bool(FALSE)
      [] OTHER -> Undefined

-----------------------------------------------------------------------------
(* Operation catalog *)

\* [...(own || []), ...pathLevel] when the path item declares the list
MergeDecl(own, pathLevel) ==
    IF Truthy(pathLevel)
    THEN Arr((IF Truthy(own) THEN own.a ELSE <<>>) \o pathLevel.a)
    ELSE own

RECURSIVE Flat(_)
Flat(ss) == IF ss = <<>> THEN <<>> ELSE Head(ss) \o Flat(Tail(ss))

\* getOperations(): every method of every path, path-level declarations appended
getOperations(def) ==
    IF def.t # "object" THEN <<>>
    ELSE Flat([i \in 1..Len(def.paths) |->
            LET pathObject == def.paths[i]
            IN [j \in 1..Len(pathObject.methods) |->
                    LET m == pathObject.methods[j]
                    IN [t |-> "object",
                        operationId |-> m.operation.operationId,
                        path |-> pathObject.path,
                        method |-> m.method,
                        parameters |-> MergeDecl(m.operation.parameters, pathObject.parameters),
                        servers |-> MergeDecl(m.operation.servers, pathObject.servers)]]])

\* _.find(seq, pred): the first of the elements matching (hits: their indexes),
\* undefined when none matches
FindFirst(s, hits) ==
    IF hits = {} THEN Undefined
    ELSE s[CHOOSE i \in hits : \A j \in hits : i <= j]

\* getOperation(operationId)
getOperation(def, operationId) ==
    LET operations == getOperations(def)
    IN FindFirst(operations,
                 {i \in 1..Len(operations) : operations[i].operationId = Str(operationId)})

-----------------------------------------------------------------------------
(* Outcomes of a synchronous call *)

Return(v) == [kind |-> "return", value |-> v]

\* a property read on undefined, or for..of over undefined
TypeError == [kind |-> "throw", error |-> "TypeError", message |-> ""]

Error(message) == [kind |-> "throw", error |-> "Error", message |-> message]

-----------------------------------------------------------------------------
(* Base URL resolver *)

\* the operation argument as an Operation: a string is looked up by operationId
ResolveOperation(def, operation) ==
    IF operation.t = "string" THEN getOperation(def, operation.s) ELSE operation

\* the target server chosen by this.defaultServer (lines 233-248)
TargetServer(def, selector) ==
    CASE selector.t = "number" ->
            IF Truthy(def.servers) /\ selector.n + 1 \in 1..Len(def.servers.a)
            THEN Return(def.servers.a[selector.n + 1])
            ELSE Return(Undefined)
      [] selector.t = "string" ->
            IF def.servers.t # "array"
            THEN TypeError
            ELSE Return(FindFirst(def.servers.a,
                    {i \in 1..Len(def.servers.a) :
                        def.servers.a[i].description = Str(selector.s)}))
      [] OTHER ->
            IF selector.url # "" THEN Return(selector) ELSE Return(Undefined)

\* variant: the default selector is consulted before the operation's servers
getBaseURLSelectorFirst(def, selector, operation) ==
    IF ~Truthy(def) THEN Return(Undefined)
    ELSE LET op == ResolveOperation(def, operation)
             target == TargetServer(def, selector)
         IN IF Truthy(operation) /\ op = Undefined THEN TypeError
            ELSE IF target.kind = "throw" THEN target
            ELSE IF Truthy(target.value) THEN Return(Str(target.value.url))
            ELSE IF Truthy(operation) /\ Truthy(op.servers) /\ Len(op.servers.a) >= 1
            THEN Return(Str(op.servers.a[1].url))
            ELSE Return(Undefined)

getBaseURL(def, selector, operation) ==
    IF ~Truthy(def) THEN Return(Undefined)
    ELSE LET op == ResolveOperation(def, operation)
             target == TargetServer(def, selector)
         IN IF Truthy(operation) /\ op = Undefined THEN TypeError
            ELSE IF Truthy(operation) /\ Truthy(op.servers) /\ Len(op.servers.a) >= 1
            THEN Return(Str(op.servers.a[1].url))
            ELSE IF target.kind = "throw" THEN target
            ELSE IF ~Truthy(target.value) THEN Return(Undefined)
            ELSE Return(Str(target.value.url))

-----------------------------------------------------------------------------
(* Argument binder and parameter classifier *)

NoParams == [pathParams |-> EmptyMap, query |-> EmptyMap,
             headers |-> EmptyMap, cookies |-> EmptyMap]

\* the closure's switch on the location: an unknown location sets nothing
setRequestParam(maps, name, value, type) ==
    CASE type = ParamPath -> [maps EXCEPT !.pathParams = Put(@, name, value)]
      [] type = ParamQuery -> [maps EXCEPT !.query = Put(@, name, value)]
      [] type = ParamHeader -> [maps EXCEPT !.headers = Put(@, name, value)]
      [] type = ParamCookie -> [maps EXCEPT !.cookies = Put(@, name, value)]
      [] OTHER -> maps

\* operation.parameters as a sequence (_.find and _.first take undefined as empty)
Declared(operation) ==
    IF Truthy(operation.parameters) THEN operation.parameters.a ELSE <<>>

getParamType(operation, paramName) ==
    LET parameters == Declared(operation)
        param == FindFirst(parameters,
                           {i \in 1..Len(parameters) : parameters[i].name = paramName})
    IN IF param # Undefined THEN param.in ELSE ParamQuery

\* variant: the first declared parameter, required or not
getFirstDeclaredParam(operation) ==
    IF Declared(operation) # <<>> THEN Declared(operation)[1] ELSE Undefined

getFirstOperationParam(operation) ==
    LET parameters == Declared(operation)
        firstRequiredParam == FindFirst(parameters,
                                        {i \in 1..Len(parameters) : parameters[i].required})
    IN IF firstRequiredParam # Undefined THEN firstRequiredParam
       ELSE IF Declared(operation) # <<>> THEN Declared(operation)[1]
       ELSE Undefined

\* ParamsArray: each triple at its own location, or classified by name
RECURSIVE BindTriples(_, _, _)
BindTriples(operation, triples, maps) ==
    IF triples = <<>> THEN maps
    ELSE LET param == Head(triples)
             type == IF Truthy(param.in) THEN param.in.s
                     ELSE getParamType(operation, param.name)
         IN BindTriples(operation, Tail(triples),
                        setRequestParam(maps, param.name, param.value, type))

\* variant: every key is forwarded, whatever its value
RECURSIVE BindMappingForwardAll(_, _, _, _)
BindMappingForwardAll(operation, o, names, maps) ==
    IF names = {} THEN maps
    ELSE LET name == CHOOSE n \in names : TRUE
         IN BindMappingForwardAll(operation, o, names \ {name},
                setRequestParam(maps, name, o[name], getParamType(operation, name)))

\* ParamsObject: for (name in paramsArg) if (paramsArg[name]) ...
RECURSIVE BindMapping(_, _, _, _)
BindMapping(operation, o, names, maps) ==
    IF names = {} THEN maps
    ELSE LET name == CHOOSE n \in names : TRUE
         IN BindMapping(operation, o, names \ {name},
                IF Truthy(o[name])
                THEN setRequestParam(maps, name, o[name], getParamType(operation, name))
                ELSE maps)

\* lines 344-363: the bound maps, or the error thrown for an unbindable scalar
Bind(operation, paramsArg) ==
    CASE paramsArg.t = "array" ->
            Return(BindTriples(operation, paramsArg.a, NoParams))
      [] paramsArg.t = "object" ->
            Return(BindMapping(operation, paramsArg.o, DOMAIN paramsArg.o, NoParams))
      [] paramsArg.t = "null" ->
            Return(NoParams)
      [] paramsArg.t = "undefined" ->
            Return(NoParams)
      [] OTHER ->
            LET firstParam == getFirstOperationParam(operation)
            IN IF firstParam = Undefined
               THEN Error("No parameters found for operation " \o ToStr(operation.operationId))
               ELSE Return(setRequestParam(NoParams, firstParam.name, paramsArg, firstParam.in))

-----------------------------------------------------------------------------
(* Path templater and query string *)

\* pathBuilder.names: the placeholders of the path pattern, in order
PathNames(path) ==
    LET IsName(i) == "name" \in DOMAIN path[i]
    IN SelectSeq([i \in 1..Len(path) |-> IF IsName(i) THEN path[i].name ELSE ""],
                 LAMBDA n : n # "")

\* lines 368-371: every placeholder's value becomes its string form
RECURSIVE FillPathParams(_, _)
FillPathParams(pathParams, names) ==
    IF names = <<>> THEN pathParams
    ELSE FillPathParams(Put(pathParams, Head(names), Str(ToStr(Get(pathParams, Head(names))))),
                        Tail(names))

\* pathBuilder.path(pathParams): each placeholder replaced by its value
RECURSIVE RenderPath(_, _)
RenderPath(path, pathParams) ==
    IF path = <<>> THEN ""
    ELSE LET seg == Head(path)
             text == IF "name" \in DOMAIN seg THEN ToStr(pathParams[seg.name]) ELSE seg.lit
         IN "/" \o text \o RenderPath(Tail(path), pathParams)

\* parameter names in the order QueryString.stringify sorts its keys
SortedKeys == <<"id", "q", "tag">>

\* encodeURIComponent on the strings of the model: only the space is reserved
Encode(s) == IF s = "a b" THEN "a%20b" ELSE s

\* one key of the query map under arrayFormat 'none'
RECURSIVE QueryPairs(_, _)
QueryPairs(key, values) ==
    IF values = <<>> THEN <<>>
    ELSE (IF Head(values).t = "undefined" THEN <<>>
          ELSE IF Head(values).t = "null" THEN <<Encode(key)>>
          ELSE <<Encode(key) \o "=" \o Encode(ToStr(Head(values)))>>)
         \o QueryPairs(key, Tail(values))

RECURSIVE JoinAmp(_)
JoinAmp(parts) ==
    IF parts = <<>> THEN ""
    ELSE IF Len(parts) = 1 THEN parts[1]
    ELSE parts[1] \o "&" \o JoinAmp(Tail(parts))

\* QueryString.stringify(query, { arrayFormat: 'none' })
QueryStringify(query) ==
    LET PairsOf(key) ==
            IF key \notin DOMAIN query THEN <<>>
            ELSE IF query[key].t = "array" THEN QueryPairs(key, query[key].a)
            ELSE QueryPairs(key, <<query[key]>>)
    IN JoinAmp(Flat([i \in 1..Len(SortedKeys) |-> PairsOf(SortedKeys[i])]))

-----------------------------------------------------------------------------
(* Request assembler *)

\* line 378: `${baseURL}${path}${queryString ? `?${queryString}` : ''}`
FullURL(baseURL, path, queryString) ==
    ToStr(baseURL) \o path \o (IF queryString # "" THEN "?" \o queryString ELSE "")

getRequestConfigForOperation(def, selector, operationArg, args) ==
    LET operation == ResolveOperation(def, operationArg)
    IN IF operation = Undefined THEN TypeError
       ELSE LET bound == Bind(operation, args.params)
            IN IF bound.kind = "throw" THEN bound
               ELSE LET pathParams == FillPathParams(bound.value.pathParams,
                                                     PathNames(operation.path))
                        path == RenderPath(operation.path, pathParams)
                        queryString == QueryStringify(bound.value.query)
                        baseURL == getBaseURL(def, selector, operation)
                    IN IF baseURL.kind = "throw" THEN baseURL
                       ELSE Return([method |-> operation.method,
                                    url |-> FullURL(baseURL.value, path, queryString),
                                    path |-> path,
                                    pathParams |-> pathParams,
                                    query |-> bound.value.query,
                                    queryString |-> queryString,
                                    headers |-> bound.value.headers,
                                    cookies |-> bound.value.cookies,
                                    payload |-> args.payload])

-----------------------------------------------------------------------------
(* _.merge(object, source) as lodash computes it on arrays and plain objects *)

Max(a, b) == IF a >= b THEN a ELSE b

\* a destination the model's inputs never produce (an array merged into a plain
\* object in place)
Unmodelled == [t |-> "unmodelled"]

\* the named properties an array carries besides its elements
PropsOf(array) == IF "o" \in DOMAIN array THEN array.o ELSE EmptyMap

RECURSIVE Merge(_, _)
RECURSIVE MergeValue(_, _, _)

\* baseMergeDeep / assignMergeValue for one key: objValue, whether the key
\* exists in the destination, and srcValue
MergeValue(objValue, hasKey, srcValue) ==
    LET newValue ==
            CASE srcValue.t = "array" ->
                    Merge(IF objValue.t = "array" THEN objValue ELSE Arr(<<>>), srcValue)
              [] srcValue.t = "object" ->
                    Merge(IF objValue.t \in {"object", "array"} THEN objValue
                          ELSE Obj(EmptyMap), srcValue)
              [] OTHER -> srcValue
    IN IF newValue = Undefined /\ hasKey THEN objValue ELSE newValue

Merge(object, source) ==
    CASE object.t = "object" /\ source.t = "object" ->
            Obj([k \in (DOMAIN object.o) \cup (DOMAIN source.o) |->
                    IF k \in DOMAIN source.o
                    THEN MergeValue(Get(object.o, k), k \in DOMAIN object.o, source.o[k])
                    ELSE object.o[k]])
      [] object.t = "array" /\ source.t = "array" ->
            [object EXCEPT !.a =
                [i \in 1..Max(Len(object.a), Len(source.a)) |->
                    IF i <= Len(source.a)
                    THEN MergeValue(IF i <= Len(object.a) THEN object.a[i] ELSE Undefined,
                                    i <= Len(object.a), source.a[i])
                    ELSE object.a[i]]]
      [] object.t = "array" /\ source.t = "object" ->
            \* the array is kept and the source's keys become its properties
            [t |-> "array", a |-> object.a,
             o |-> Merge(Obj(PropsOf(object)), source).o]
      [] OTHER -> Unmodelled

\* lines 268-281: the computed axios config, baseURL set for operation-level servers
ComputedAxiosConfig(operation, request) ==
    LET axiosConfig == [k \in {"method", "url", "data", "params", "headers"} |->
                            CASE k = "method" -> Str(request.method)
                              [] k = "url" -> Str(request.path)
                              [] k = "data" -> request.payload
                              [] k = "params" -> Obj(request.query)
                              [] k = "headers" -> Obj(request.headers)]
    IN IF Truthy(operation.servers) /\ Len(operation.servers.a) >= 1
       THEN Obj(Put(axiosConfig, "baseURL", Str(operation.servers.a[1].url)))
       ELSE Obj(axiosConfig)

\* lines 283-285: the raw override is merged last
ApplyOverride(axiosConfig, config) ==
    IF Truthy(config) THEN Merge(axiosConfig, config) ELSE axiosConfig

\* lines 266-285 once the operation is resolved and the request config built
AxiosConfigOf(operation, request, config) ==
    IF request.kind = "throw" THEN request
    ELSE Return(ApplyOverride(ComputedAxiosConfig(operation, request.value), config))

getAxiosConfigForOperation(def, selector, operationArg, args) ==
    IF ResolveOperation(def, operationArg) = Undefined THEN TypeError
    ELSE AxiosConfigOf(ResolveOperation(def, operationArg),
                       getRequestConfigForOperation(def, selector, operationArg, args),
                       args.config)

-----------------------------------------------------------------------------
(* Transport *)

\* axios.create(defaults) with the baseURL of lines 158-161
createAxiosInstance(def, selector, defaults, id) ==
    LET baseURL == getBaseURL(def, selector, Undefined)
    IN IF baseURL.kind = "throw" THEN baseURL
       ELSE Return([t |-> "instance", id |-> id,
                    baseURL |-> IF Truthy(baseURL.value) /\ ~Truthy(defaults.baseURL)
                                THEN baseURL.value
                                ELSE defaults.baseURL])

\* this.client.request(axiosConfig): a request config's baseURL overrides the
\* instance default, and the origin is prefixed to the relative url
Request(client, axiosConfig) ==
    LET baseURL == IF Get(axiosConfig.o, "baseURL") # Undefined
                   THEN axiosConfig.o["baseURL"]
                   ELSE client.baseURL
    IN [baseURL |-> baseURL, config |-> axiosConfig]

\* lines 447-449: a throw while building the config rejects the call, else the
\* config is handed to the transport
Send(client, axiosConfig) ==
    IF axiosConfig.kind = "throw" THEN axiosConfig
    ELSE Return(Request(client, axiosConfig.value))

-----------------------------------------------------------------------------
(* Inputs *)

Callers == 1..NumCallers

\* a server given to withServer as an explicit origin object
ExplicitServer == Server("https://explicit", Undefined)

\* default-server selectors: indexes (2 is out of range), a description, a
\* string that is a server's URL but no server's description, an origin object
Selectors == {Num(0), Num(1), Num(2), Str("staging"), Str("https://staging"), ExplicitServer}

\* the second argument of withServer: omitted, or a substitution map
VariableArgs == {Undefined, Obj([k \in {"env"} |-> Str("eu")])}

\* opts.axiosConfigDefaults.baseURL: not set, or configured
ConfiguredBaseURLs == {Undefined, Str("https://configured")}

SeqToSet(s) == {s[i] : i \in 1..Len(s)}

\* the operations of the description, as a caller holds them
CatalogOperations == SeqToSet(getOperations(DocServers))

OperationOf(id) == getOperation(DocServers, id)

NoArgs == [params |-> Undefined, payload |-> Undefined, config |-> Undefined]

Mapping(o) == [params |-> Obj(o), payload |-> Undefined, config |-> Undefined]

Scalar(v) == [params |-> v, payload |-> Undefined, config |-> Undefined]

\* the arguments of the operation methods called on the instance
LifecycleArgs == {NoArgs, Mapping([k \in {"id"} |-> Num(42)])}

\* operation arguments of the calls made while the server selection changes:
\* with and without operation-level servers, as objects and as operationIds
ServerOperations ==
    {OperationOf("getPet"), OperationOf("deletePet"), Str("deletePet"), Str("listPets"),
     Str("unknown")}

ServerArgs == {NoArgs, Mapping([k \in {"id", "q"} |-> IF k = "id" THEN Num(42) ELSE Str("a b")])}

\* values bound by name: the five falsy values, truthy scalars and an array
MappingValues ==
    {Num(0), Str(""), Null, Bool(FALSE), Undefined, Num(42), Str("a b"),
     Arr(<<Num(1), Num(2)>>)}

ParamNames == {"id", "q", "tag"}

\* every mapping from some of the names to the values
MappingArgs ==
    UNION {[names -> MappingValues] : names \in SUBSET ParamNames}

\* bare scalars: non-null, non-object
ScalarArgs == {Num(0), Num(42), Str(""), Str("a b"), Bool(FALSE), Bool(TRUE)}

\* explicit triples: the location is optional
Triples ==
    [name : {"id", "q"}, value : {Num(7)},
     in : {Undefined, Str(ParamPath), Str(ParamQuery), Str(ParamHeader), Str(ParamCookie)}]

TripleArgs == UNION {[1..n -> Triples] : n \in 0..MaxTriples}

\* first arguments of every legal shape, with neither payload nor override
BindArgs ==
    {Mapping(o) : o \in MappingArgs}
    \cup {Scalar(v) : v \in ScalarArgs \cup {Null, Undefined}}
    \cup {Scalar(Arr(triples)) : triples \in TripleArgs}

\* request bodies: none, an array, an object
Payloads == {Undefined, Arr(<<Str("a"), Str("b")>>), Obj([k \in {"name"} |-> Str("rex")])}

\* raw overrides given as third argument
Overrides ==
    {Undefined,
     Obj([k \in {"headers"} |-> Obj([h \in {"X"} |-> Str("1")])]),
     Obj([k \in {"headers", "url"} |->
            IF k = "url" THEN Str("/other") ELSE Obj([h \in {"tag"} |-> Str("raw")])]),
     Obj([k \in {"data"} |-> Arr(<<Str("x")>>)]),
     Obj([k \in {"data"} |-> Obj([d \in {"age"} |-> Num(3)])]),
     Obj([k \in {"params"} |-> Obj([q \in {"q"} |-> Arr(<<Num(9)>>)])]),
     Obj([k \in {"baseURL", "data"} |->
            IF k = "baseURL" THEN Str("https://raw") ELSE Undefined])}

\* argument tuples with a payload and a raw override
OverrideArgs ==
    [params : {Undefined,
               Obj([k \in {"tag"} |-> Str("t")]),
               Obj([k \in {"q", "tag"} |-> IF k = "q" THEN Arr(<<Num(1), Num(2)>>) ELSE Str("t")])},
     payload : Payloads,
     config : Overrides]

-----------------------------------------------------------------------------
(* The client *)

Idle == [call |-> "none"]

\* this.definition as a value: undefined until init() assigns the document
Definition == DocumentOf(definition)

\* the constructor with its defaults: withServer 0 and no variables
Init ==
    /\ remote \in Fetched
    /\ definition = NotLoaded
    /\ initalized = FALSE
    /\ instance = Undefined
    /\ axiosConfigDefaults \in [baseURL : ConfiguredBaseURLs]
    /\ defaultServer = Num(0)
    /\ baseURLVariables = EmptyMap
    /\ pc = [c \in Callers |-> "idle"]
    /\ resolved = [c \in Callers |-> Undefined]
    /\ fetches = 0
    /\ creations = 0
    /\ selected = [server |-> Num(0), variables |-> Undefined]
    /\ ret = Idle

\* getClient(): init() up to its await of loadDocument, or the instance at once
GetClient(c) ==
    /\ pc[c] = "idle"
    /\ IF ~initalized
       THEN /\ fetches' = fetches + 1
            /\ pc' = [pc EXCEPT ![c] = "loading"]
            /\ UNCHANGED resolved
       ELSE /\ pc' = [pc EXCEPT ![c] = "done"]
            /\ resolved' = [resolved EXCEPT ![c] = instance]
            /\ UNCHANGED fetches
    /\ ret' = Idle
    /\ UNCHANGED <<remote, definition, initalized, instance, axiosConfigDefaults,
                   creations, serverVars>>

\* init() after the document arrived: validate, create the instance, mark initalized
InitResume(c) ==
    /\ pc[c] = "loading"
    /\ LET document == DocumentOf(remote)
           created == createAxiosInstance(document, defaultServer, axiosConfigDefaults,
                                          creations + 1)
       IN IF document.t # "object"
          THEN \* validateDefinition throws
               /\ pc' = [pc EXCEPT ![c] = "rejected"]
               /\ UNCHANGED <<definition, instance, initalized, resolved, creations>>
          ELSE IF created.kind = "throw"
          THEN \* getBaseURL throws inside createAxiosInstance, after axios.create
               /\ definition' = remote
               /\ creations' = creations + 1
               /\ pc' = [pc EXCEPT ![c] = "rejected"]
               /\ UNCHANGED <<instance, initalized, resolved>>
          ELSE /\ definition' = remote
               /\ creations' = creations + 1
               /\ instance' = created.value
               /\ initalized' = TRUE
               /\ pc' = [pc EXCEPT ![c] = "done"]
               /\ resolved' = [resolved EXCEPT ![c] = created.value]
    /\ ret' = Idle
    /\ UNCHANGED <<remote, axiosConfigDefaults, fetches, serverVars>>

\* variant: an omitted second argument leaves the variable map as it was
WithServerKeepVariables(server, variables) ==
    /\ defaultServer' = server
    /\ baseURLVariables' = IF variables.t = "undefined" THEN baseURLVariables ELSE variables.o
    /\ selected' = [server |-> server, variables |-> variables]
    /\ ret' = [call |-> "withServer"]
    /\ UNCHANGED lifecycleVars

\* withServer(server, variables = {})
WithServer(server, variables) ==
    /\ defaultServer' = server
    /\ baseURLVariables' = IF variables.t = "undefined" THEN EmptyMap ELSE variables.o
    /\ selected' = [server |-> server, variables |-> variables]
    /\ ret' = [call |-> "withServer"]
    /\ UNCHANGED lifecycleVars

CallGetBaseURL(operation) ==
    /\ ret' = [call |-> "getBaseURL", operation |-> operation,
               out |-> getBaseURL(Definition, defaultServer, operation)]
    /\ UNCHANGED <<lifecycleVars, serverVars>>

CallGetRequestConfigForOperation(operation, args) ==
    /\ ret' = [call |-> "getRequestConfigForOperation", operation |-> operation,
               args |-> args,
               out |-> getRequestConfigForOperation(Definition, defaultServer, operation, args)]
    /\ UNCHANGED <<lifecycleVars, serverVars>>

CallGetAxiosConfigForOperation(operation, args) ==
    /\ ret' = [call |-> "getAxiosConfigForOperation", operation |-> operation,
               args |-> args,
               out |-> getAxiosConfigForOperation(Definition, defaultServer, operation, args)]
    /\ UNCHANGED <<lifecycleVars, serverVars>>

\* an operation method of the instance (one per operation of the definition):
\* build the axios config and send it
CallOperationMethod(operation, args) ==
    /\ instance # Undefined
    /\ ret' = [call |-> "operationMethod", operation |-> operation, args |-> args,
               out |-> Send(instance,
                            getAxiosConfigForOperation(Definition, defaultServer, operation, args))]
    /\ UNCHANGED <<lifecycleVars, serverVars>>

\* the client's lifecycle: concurrent getClient() calls, server selection and
\* the operation methods of the instance
Next ==
    \/ \E c \in Callers : GetClient(c)
    \/ \E c \in Callers : InitResume(c)
    \/ \E server \in Selectors, variables \in VariableArgs : WithServer(server, variables)
    \/ \E operation \in SeqToSet(getOperations(Definition)), args \in LifecycleArgs :
            CallOperationMethod(operation, args)

Spec == Init /\ [][Next]_vars

\* server selection: one getClient() call, withServer, and the base URL resolver
\* called directly and through request construction
NextServer ==
    \/ GetClient(1)
    \/ InitResume(1)
    \/ \E server \in Selectors, variables \in VariableArgs : WithServer(server, variables)
    \/ \E operation \in ServerOperations \cup {Undefined} : CallGetBaseURL(operation)
    \/ \E operation \in ServerOperations, args \in ServerArgs :
            CallGetRequestConfigForOperation(operation, args)

SpecServer == Init /\ [][NextServer]_vars

\* request construction as a function of its arguments: a client just
\* constructed or initialised by one getClient() call, and one pending call
Pending(operation, args) == [call |-> "pending", operation |-> operation, args |-> args]

InitBind ==
    /\ remote \in Documents
    /\ axiosConfigDefaults = [baseURL |-> Undefined]
    /\ defaultServer = Num(0)
    /\ baseURLVariables = EmptyMap
    /\ selected = [server |-> Num(0), variables |-> Undefined]
    /\ \E loaded \in BOOLEAN :
        LET created == createAxiosInstance(DocumentOf(remote), defaultServer,
                                           axiosConfigDefaults, 1).value
        IN /\ definition = IF loaded THEN remote ELSE NotLoaded
           /\ initalized = loaded
           /\ instance = IF loaded THEN created ELSE Undefined
           /\ pc = [c \in Callers |-> IF loaded /\ c = 1 THEN "done" ELSE "idle"]
           /\ resolved = [c \in Callers |-> IF loaded /\ c = 1 THEN created ELSE Undefined]
           /\ fetches = IF loaded THEN 1 ELSE 0
           /\ creations = IF loaded THEN 1 ELSE 0
    /\ \E operation \in CatalogOperations, args \in BindArgs \cup OverrideArgs :
        ret = Pending(operation, args)

NextBind ==
    \/ /\ ret.call = "pending"
       /\ CallGetRequestConfigForOperation(ret.operation, ret.args)
    \/ /\ ret.call = "pending"
       /\ CallGetAxiosConfigForOperation(ret.operation, ret.args)

SpecBind == InitBind /\ [][NextBind]_vars

-----------------------------------------------------------------------------
(* Properties: base URL resolution (checked under SpecServer) *)

\* the operation declares a non-empty server list of its own
HasOwnServers(operation) ==
    /\ operation.servers.t = "array"
    /\ operation.servers.a # <<>>

\* the last call was getBaseURL with an operation that is given, as an object
\* or as the operationId of an operation of the loaded description
GivenOperation ==
    IF ret.operation.t = "string" THEN getOperation(Definition, ret.operation.s)
    ELSE ret.operation

\* C1 as claimed: getBaseURL(operation) returns the URL of the operation's first
\* server whenever the operation declares servers, in every state of the
\* client, before a description is loaded included.
C1_OperationServerInEveryState ==
    (/\ ret.call = "getBaseURL"
     /\ ret.operation.t = "object"
     /\ HasOwnServers(ret.operation))
    => ret.out = Return(Str(ret.operation.servers.a[1].url))

\* C1 amended: once a description is loaded, getBaseURL(operation) returns the
\* URL of the operation's first server whenever the operation (an object, or
\* the operationId of an operation of the description) declares servers, for
\* every value of the default-server selector.
C1_OperationServerOnceLoaded ==
    (/\ ret.call = "getBaseURL"
     /\ definition # NotLoaded
     /\ ret.operation # Undefined
     /\ GivenOperation # Undefined
     /\ HasOwnServers(GivenOperation))
    => ret.out = Return(Str(GivenOperation.servers.a[1].url))

\* C1 witness: the operation-level server is returned although the selector is
\* a description string and the loaded description has no server list at all
C1_Witness ==
    /\ ret.call = "getBaseURL"
    /\ definition = "DocNoServers"
    /\ defaultServer = Str("staging")
    /\ ret.operation = Str("deletePet")
    /\ ret.out = Return(Str("https://op-override"))

\* what the claim says the default selector resolves to: the URL, or not-found
ClaimedDefaultOrigin ==
    LET servers == IF definition # NotLoaded /\ Definition.servers.t = "array"
                   THEN Definition.servers.a ELSE <<>>
        described == {i \in 1..Len(servers) : servers[i].description = defaultServer}
    IN CASE definition = NotLoaded -> Undefined
         [] defaultServer.t = "number" ->
                IF defaultServer.n + 1 \in 1..Len(servers)
                THEN Str(servers[defaultServer.n + 1].url) ELSE Undefined
         [] defaultServer.t = "string" ->
                IF described = {} THEN Undefined
                ELSE Str(servers[CHOOSE i \in described : \A j \in described : i <= j].url)
         [] OTHER -> Str(defaultServer.url)

\* C6: without an operation-level server, getBaseURL resolves the default
\* selector (index, description, origin object) and returns not-found, never
\* an error, whenever no server resolves.
C6_NotFoundNeverAnError ==
    (/\ ret.call = "getBaseURL"
     /\ \/ ret.operation = Undefined
        \/ ret.operation.t = "object" /\ ~HasOwnServers(ret.operation))
    => ret.out = Return(ClaimedDefaultOrigin)

\* C5: the selector and the variable map are those of the most recent
\* withServer call (the map empty when omitted), and a descriptor built for an
\* operation without servers of its own has the origin that selector resolves to.
C5_LastWriteWins ==
    /\ defaultServer = selected.server
    /\ baseURLVariables = IF selected.variables = Undefined THEN EmptyMap
                          ELSE selected.variables.o
    /\ (/\ ret.call = "getRequestConfigForOperation"
        /\ ret.out.kind = "return"
        /\ ~HasOwnServers(ResolveOperation(Definition, ret.operation)))
       => ret.out.value.url =
            FullURL(getBaseURL(Definition, selected.server, Undefined).value,
                    ret.out.value.path, ret.out.value.queryString)

\* C5 witness: after withServer(1, {env: "eu"}) a descriptor is built for getPet
C5_Witness ==
    /\ selected = [server |-> Num(1), variables |-> Obj([k \in {"env"} |-> Str("eu")])]
    /\ baseURLVariables = [k \in {"env"} |-> Str("eu")]
    /\ ret.call = "getRequestConfigForOperation"
    /\ ret.operation = OperationOf("getPet")
    /\ ret.out.kind = "return"
    /\ ret.out.value.url = "https://staging/pets/42?q=a%20b"

\* C2: when the resolver finds no origin, request construction succeeds and the
\* url is the path, followed by "?" and the query string when there is one.
C2_EmptyOriginPrefix ==
    (/\ ret.call = "getRequestConfigForOperation"
     /\ ret.operation.t = "object"
     /\ getBaseURL(Definition, defaultServer, ret.operation) = Return(Undefined))
    => /\ ret.out.kind = "return"
       /\ ret.out.value.url =
            ret.out.value.path
            \o (IF ret.out.value.queryString # "" THEN "?" \o ret.out.value.queryString
                ELSE "")

-----------------------------------------------------------------------------
(* Properties: initialisation and transport (checked under Spec) *)

\* C9: for an operation without servers of its own, the origin the transport
\* sends the request to is the origin of the descriptor built for the same
\* call (stated for a client whose axios defaults configure no baseURL).
C9_TransportOriginIsDescriptorOrigin ==
    (/\ ret.call = "operationMethod"
     /\ ret.out.kind = "return"
     /\ axiosConfigDefaults.baseURL = Undefined
     /\ ~HasOwnServers(ret.operation))
    => ret.out.value.baseURL = getBaseURL(Definition, defaultServer, ret.operation).value

\* C10: whatever the interleaving of getClient calls, the document is loaded at
\* most once, one instance is created at most, and all calls resolve to the
\* same instance.
C10_InitialisedOnce ==
    /\ fetches <= 1
    /\ creations <= 1
    /\ \A c \in Callers, d \in Callers :
            (pc[c] = "done" /\ pc[d] = "done") => resolved[c] = resolved[d]

-----------------------------------------------------------------------------
(* Properties: request construction (checked under SpecBind) *)

Locations == {ParamPath, ParamQuery, ParamHeader, ParamCookie}

\* the descriptor's map for a location
MapAt(descriptor, location) ==
    CASE location = ParamPath -> descriptor.pathParams
      [] location = ParamQuery -> descriptor.query
      [] location = ParamHeader -> descriptor.headers
      [] location = ParamCookie -> descriptor.cookies

\* the locations at which the descriptor holds the name
LocationsOf(descriptor, name) ==
    {location \in Locations : name \in DOMAIN MapAt(descriptor, location)}

\* the last call returned a request descriptor
Built ==
    /\ ret.call = "getRequestConfigForOperation"
    /\ ret.out.kind = "return"

\* C4: no parameter name is held at more than one location of a descriptor.
C4_OneLocationPerName ==
    Built => \A name \in ParamNames : Cardinality(LocationsOf(ret.out.value, name)) <= 1

\* the location the operation declares for the name (its first declaration),
\* query when it declares none
DeclaredLocation(operation, name) ==
    LET declared == {i \in 1..Len(Declared(operation)) : Declared(operation)[i].name = name}
    IN IF declared = {} THEN ParamQuery
       ELSE Declared(operation)[CHOOSE i \in declared : \A j \in declared : i <= j].in

\* the name is a placeholder of the operation's path
IsPlaceholder(operation, name) ==
    \E i \in 1..Len(operation.path) : operation.path[i] = Placeholder(name)

\* C7 as claimed: a key of a mapping argument is in the descriptor if and only
\* if its value is truthy, and then at its declared location (query when
\* undeclared).
C7_MappingKeyIffTruthy ==
    (Built /\ ret.args.params.t = "object")
    => \A name \in DOMAIN ret.args.params.o :
        LET value == ret.args.params.o[name]
            location == DeclaredLocation(ret.operation, name)
        IN /\ (LocationsOf(ret.out.value, name) # {}) <=> Truthy(value)
           /\ Truthy(value) => LocationsOf(ret.out.value, name) = {location}

\* C7 amended: a key is in the descriptor if and only if its value is truthy
\* or it names a placeholder of the path; a truthy value is forwarded at its
\* declared location (query when undeclared) and a falsy value nowhere; a
\* placeholder that nothing bound at the path location holds "undefined".
C7_MappingKeyIffTruthyOrPlaceholder ==
    (Built /\ ret.args.params.t = "object")
    => \A name \in DOMAIN ret.args.params.o :
        LET value == ret.args.params.o[name]
            location == DeclaredLocation(ret.operation, name)
            placeholder == IsPlaceholder(ret.operation, name)
            forwarded == Truthy(value)
            bound == MapAt(ret.out.value, location)
        IN /\ LocationsOf(ret.out.value, name) =
                (IF forwarded THEN {location} ELSE {})
                \cup (IF placeholder THEN {ParamPath} ELSE {})
           /\ (forwarded /\ ~(placeholder /\ location = ParamPath)) => bound[name] = value
           /\ (forwarded /\ placeholder /\ location = ParamPath)
                => bound[name] = Str(ToStr(value))
           /\ (placeholder /\ ~(forwarded /\ location = ParamPath))
                => ret.out.value.pathParams[name] = Str("undefined")

\* C7 witness: {id: 0, q: "a b"} for getPet forwards q to the query, and id,
\* falsy, only fills the placeholder with "undefined"
C7_Witness ==
    /\ Built
    /\ ret.operation = OperationOf("getPet")
    /\ ret.args.params = Obj([k \in {"id", "q"} |-> IF k = "id" THEN Num(0) ELSE Str("a b")])
    /\ ret.out.value.query = [k \in {"q"} |-> Str("a b")]
    /\ ret.out.value.pathParams = [k \in {"id"} |-> Str("undefined")]
    /\ ret.out.value.path = "/pets/undefined"

\* the first argument is a bare scalar
ScalarCall ==
    /\ ret.call = "getRequestConfigForOperation"
    /\ ret.args.params.t \in {"number", "string", "boolean"}

\* the parameter a scalar goes to: the first required one, else the first
ScalarTarget(operation) ==
    LET required == {i \in 1..Len(Declared(operation)) : Declared(operation)[i].required}
    IN IF required = {} THEN Declared(operation)[1]
       ELSE Declared(operation)[CHOOSE i \in required : \A j \in required : i <= j]

RECURSIVE ClaimedMerge(_, _)
ClaimedMerge(computed, override) ==
    Obj([k \in (DOMAIN computed.o) \cup (DOMAIN override.o) |->
            IF k \notin DOMAIN override.o THEN computed.o[k]
            ELSE IF k \notin DOMAIN computed.o THEN override.o[k]
            ELSE IF override.o[k] = Undefined THEN computed.o[k]
            ELSE IF override.o[k].t = "object" /\ computed.o[k].t = "object"
                 THEN ClaimedMerge(computed.o[k], override.o[k])
            ELSE override.o[k]])

\* C3: the raw override is merged last onto the computed config: it wins key by
\* key, nested objects are merged recursively, arrays are replaced wholesale.
C3_OverrideReplacesArrays ==
    (/\ ret.call = "getAxiosConfigForOperation"
     /\ ret.out.kind = "return"
     /\ Truthy(ret.args.config))
    => ret.out.value =
        ClaimedMerge(getAxiosConfigForOperation(Definition, defaultServer, ret.operation,
                                                [ret.args EXCEPT !.config = Undefined]).value,
                     ret.args.config)

====
